---- MODULE Spec2Model ----
(***************************************************************************)
(* Model of wildfire_analysis: the equal-area grid (spatial/grid.py), the  *)
(* radius join (spatial/distance.py, spatial/graph_builder.py) and the     *)
(* parallel aggregation driver create_spatial_graph.                       *)
(*                                                                         *)
(* Numbers.  The code computes in float64.  The model computes in fixed    *)
(* point: an angle is an integer number of 1/DegScale degrees (1e-4 deg),  *)
(* a cosine is an integer number of thousandths, a distance is an integer  *)
(* number of decametres.  A missing value (NaN) is the value NaN.          *)
(***************************************************************************)
EXTENDS Integers, Sequences, FiniteSets, TLC

(***************************************************************************)
(* Program constants.                                                      *)
(***************************************************************************)
KM_PER_LAT_DEGREE == 111

\* "{x:.2f}": two decimals, i.e. hundredths of a degree.
IdScale == 100

\* Fixed-point resolution of an angle: units per degree.
DegScale == IdScale * IdScale

\* Marker of a missing numeric value (float NaN).
NaN == -999999

(***************************************************************************)
(* Arithmetic helpers.                                                     *)
(***************************************************************************)
Abs(x) == IF x < 0 THEN -x ELSE x

Max2(a, b) == IF a >= b THEN a ELSE b

Min2(a, b) == IF a <= b THEN a ELSE b

\* ceil(a / b) for b > 0.
CeilDiv(a, b) == -((-a) \div b)

\* How the float quotient (stop - start) / step of np.arange comes out when it
\* is a whole number in exact arithmetic: just above it (TRUE) or not (FALSE).
\* The operands are rounded floats, and the fixed point of the model cannot
\* tell which of the two a call gets.
VARIABLE fp_rounds_up

\* (stop - start) / step is a positive whole number
WholeQuotient(start, stop, step) ==
    IF step > 0 THEN stop > start /\ (stop - start) % step = 0
    ELSE step < 0 /\ start > stop /\ (start - stop) % (-step) = 0

\* len(np.arange(start, stop, step)) for step # 0: ceil((stop - start) / step),
\* never negative; one more when a whole quotient comes out above itself.
ArangeLen(start, stop, step) ==
    (IF step > 0
     THEN Max2(0, CeilDiv(stop - start, step))
     ELSE Max2(0, CeilDiv(start - stop, -step)))
    + (IF fp_rounds_up /\ WholeQuotient(start, stop, step) THEN 1 ELSE 0)

\* np.arange(start, stop, step) for step # 0.
arange(start, stop, step) ==
    [i \in 1..ArangeLen(start, stop, step) |-> start + (i - 1) * step]

\* np.cos(np.radians(lat)) in thousandths; the angle goes to milliradians and
\* the cosine is its Taylor polynomial to the eighth power.
Cos1000(lat) ==
    LET x  == (Abs(lat) * 1745) \div (100 * DegScale)
        x2 == (x * x) \div 1000
        x4 == (x2 * x2) \div 1000
        x6 == (x4 * x2) \div 1000
        x8 == (x6 * x2) \div 1000
    IN  1000 - (x2 \div 2) + (x4 \div 24) - (x6 \div 720) + (x8 \div 40320)

\* f"{x:.2f}": the sign of x and |x| rounded to hundredths (ties to even).  A
\* negative x keeps its sign even when it rounds to zero ("-0.00").
Format2(x) ==
    LET a == Abs(x)
        q == a \div IdScale
        r == a % IdScale
        h == IdScale \div 2
        n == IF r < h THEN q
             ELSE IF r > h THEN q + 1
             ELSE IF q % 2 = 0 THEN q ELSE q + 1
    IN  <<x < 0, n>>

(***************************************************************************)
(* spatial/grid.py: create_grid_cells.                                     *)
(***************************************************************************)
\* lat_grid_size = grid_size_km / KM_PER_LAT_DEGREE
LatGridSize(grid_size_km) == (grid_size_km * DegScale) \div KM_PER_LAT_DEGREE

\* lon_grid_size = grid_size_km / (KM_PER_LAT_DEGREE * cos(radians(center_lat)))
LonGridSize(grid_size_km, center_lat) ==
    (grid_size_km * DegScale * 1000) \div (KM_PER_LAT_DEGREE * Cos1000(center_lat))

\* center of bin i of a sequence of bin edges
BinCenter(bins, i) == (bins[i] + bins[i + 1]) \div 2

\* number of bins of a sequence of bin edges: range(len(bins) - 1)
NBins(bins) == Max2(0, Len(bins) - 1)

\* (mutant) the stop of np.arange is max_lat, without the step added to it
LatBinsUnpadded(min_lat, max_lat, grid_size_km) ==
    arange(min_lat, max_lat, LatGridSize(grid_size_km))

\* lat_bins = np.arange(min_lat, max_lat + lat_grid_size, lat_grid_size)
LatBins(min_lat, max_lat, grid_size_km) ==
    arange(min_lat, max_lat + LatGridSize(grid_size_km), LatGridSize(grid_size_km))

LonBandBins(min_lon, max_lon, grid_size_km, center_lat) ==
    arange(min_lon, max_lon + LonGridSize(grid_size_km, center_lat),
           LonGridSize(grid_size_km, center_lat))

\* grid_id = f"{center_lat:.2f}_{center_lon:.2f}"
GridId(center_lat, center_lon) == <<Format2(center_lat), Format2(center_lon)>>

\* the cells of one latitude band, west to east
BandCells(center_lat, lon_band_bins) ==
    [j \in 1..NBins(lon_band_bins) |->
        <<center_lat, BinCenter(lon_band_bins, j),
          GridId(center_lat, BinCenter(lon_band_bins, j))>>]

RECURSIVE ConcatBands(_, _)
ConcatBands(bands, k) ==
    IF k = 0 THEN <<>> ELSE ConcatBands(bands, k - 1) \o bands[k]

\* create_grid_cells for grid_size_km # 0: (lat_bins, lon_bins_by_lat, cell_centers)
create_grid_cells(min_lat, max_lat, min_lon, max_lon, grid_size_km) ==
    LET lat_bins == LatBins(min_lat, max_lat, grid_size_km)
        lon_bins_by_lat ==
            [b \in 1..NBins(lat_bins) |->
                LonBandBins(min_lon, max_lon, grid_size_km, BinCenter(lat_bins, b))]
        bands ==
            [b \in 1..NBins(lat_bins) |->
                BandCells(BinCenter(lat_bins, b), lon_bins_by_lat[b])]
    IN  [lat_bins        |-> lat_bins,
         lon_bins_by_lat |-> lon_bins_by_lat,
         cell_centers    |-> ConcatBands(bands, NBins(lat_bins))]

(***************************************************************************)
(* spatial/grid.py: create_grid_edges.  Indices are 1-based here.          *)
(***************************************************************************)
\* lon_centers_by_lat[lat_idx]
LonCenters(lon_bins, lat_idx) ==
    [i \in 1..NBins(lon_bins[lat_idx]) |-> BinCenter(lon_bins[lat_idx], i)]

\* (mutant) the id formatted from the south-west corner of the cell
CellLookupFromCorner(bins, lon_bins, lat_idx, lon_idx) ==
    GridId(bins[lat_idx], lon_bins[lat_idx][lon_idx])

\* cell_lookup[(lat_idx, lon_idx)]: the id recomputed from the bin edges
CellLookup(bins, lon_bins, lat_idx, lon_idx) ==
    GridId(BinCenter(bins, lat_idx), LonCenters(lon_bins, lat_idx)[lon_idx])

\* (mutant) the last index of the least difference
ClosestLonIdxLast(next_lon_centers, current_lon) ==
    CHOOSE j \in 1..Len(next_lon_centers) :
        /\ \A k \in 1..Len(next_lon_centers) :
              Abs(next_lon_centers[j] - current_lon) <= Abs(next_lon_centers[k] - current_lon)
        /\ \A k \in (j + 1)..Len(next_lon_centers) :
              Abs(next_lon_centers[k] - current_lon) > Abs(next_lon_centers[j] - current_lon)

\* np.argmin(np.abs(np.array(next_lon_centers) - current_lon)): the first index
\* of the least difference
ClosestLonIdx(next_lon_centers, current_lon) ==
    CHOOSE j \in 1..Len(next_lon_centers) :
        /\ \A k \in 1..Len(next_lon_centers) :
              Abs(next_lon_centers[j] - current_lon) <= Abs(next_lon_centers[k] - current_lon)
        /\ \A k \in 1..(j - 1) :
              Abs(next_lon_centers[k] - current_lon) > Abs(next_lon_centers[j] - current_lon)

\* (mutant) only the south-east neighbour is looked for
DiagonalIdxEastOnly(closest_lon_idx, n_next) ==
    IF closest_lon_idx < n_next THEN <<closest_lon_idx + 1>> ELSE <<>>

\* Lines 158-172: the longitude indices of the diagonal neighbours of a cell
\* whose closest cell in the next band of n_next cells is closest_lon_idx:
\* south-east when there is a cell east of it, then south-west when there is
\* one west of it
DiagonalIdx(closest_lon_idx, n_next) ==
    (IF closest_lon_idx < n_next THEN <<closest_lon_idx + 1>> ELSE <<>>)
    \o (IF closest_lon_idx > 1 THEN <<closest_lon_idx - 1>> ELSE <<>>)

\* (mutant) a cell is connected to its west neighbour too
CellTargetsBothWays(bins, lon_bins, lat_idx, lon_idx) ==
    (IF lon_idx < Len(LonCenters(lon_bins, lat_idx))
     THEN <<<<lat_idx, lon_idx + 1>>>> ELSE <<>>)
    \o (IF lon_idx > 1 THEN <<<<lat_idx, lon_idx - 1>>>> ELSE <<>>)

\* Lines 135-172: the (lat_idx, lon_idx) keys of cell_lookup that cell
\* (lat_idx, lon_idx) is connected to, in the order of the appends: east, south,
\* south-east, south-west
CellTargets(bins, lon_bins, lat_idx, lon_idx) ==
    LET east == IF lon_idx < Len(LonCenters(lon_bins, lat_idx))
                THEN <<<<lat_idx, lon_idx + 1>>>>
                ELSE <<>>
        next_lon_centers == LonCenters(lon_bins, lat_idx + 1)
        closest_lon_idx ==
            ClosestLonIdx(next_lon_centers, LonCenters(lon_bins, lat_idx)[lon_idx])
        diagonal == DiagonalIdx(closest_lon_idx, Len(next_lon_centers))
    IN  IF lat_idx < NBins(bins) /\ lat_idx + 1 <= Len(lon_bins)
        THEN east \o <<<<lat_idx + 1, closest_lon_idx>>>>
                  \o [d \in 1..Len(diagonal) |-> <<lat_idx + 1, diagonal[d]>>]
        ELSE east

\* the edges that start at cell (lat_idx, lon_idx), each a pair of keys of
\* cell_lookup
CellEdges(bins, lon_bins, lat_idx, lon_idx) ==
    LET targets == CellTargets(bins, lon_bins, lat_idx, lon_idx)
    IN  [t \in 1..Len(targets) |-> <<<<lat_idx, lon_idx>>, targets[t]>>]

\* np.argmin of an empty array raises ValueError: a cell above an empty band
ArgminFails(bins, lon_bins) ==
    \E lat_idx \in 1..(NBins(bins) - 1) :
        /\ Len(LonCenters(lon_bins, lat_idx)) > 0
        /\ Len(LonCenters(lon_bins, lat_idx + 1)) = 0

RECURSIVE BandEdges(_, _, _, _)
\* the edges that start at the first k cells of band lat_idx
BandEdges(bins, lon_bins, lat_idx, k) ==
    IF k = 0 THEN <<>>
    ELSE BandEdges(bins, lon_bins, lat_idx, k - 1) \o CellEdges(bins, lon_bins, lat_idx, k)

RECURSIVE EdgesUpTo(_, _, _)
\* the edges that start in the first b bands
EdgesUpTo(bins, lon_bins, b) ==
    IF b = 0 THEN <<>>
    ELSE EdgesUpTo(bins, lon_bins, b - 1)
         \o BandEdges(bins, lon_bins, b, Len(LonCenters(lon_bins, b)))

\* (current_id, other_id) for each pair of keys: the ids that cell_lookup holds
EdgeIds(bins, lon_bins, pairs) ==
    [e \in 1..Len(pairs) |->
        <<CellLookup(bins, lon_bins, pairs[e][1][1], pairs[e][1][2]),
          CellLookup(bins, lon_bins, pairs[e][2][1], pairs[e][2][2])>>]

\* (mutant) the first cell of the last band is also connected to the first
\* cell of the first band
create_grid_edges_wrapped(bins, lon_bins, centers) ==
    EdgeIds(bins, lon_bins, EdgesUpTo(bins, lon_bins, NBins(bins)))
    \o (IF NBins(bins) >= 2
        THEN <<<<CellLookup(bins, lon_bins, NBins(bins), 1), CellLookup(bins, lon_bins, 1, 1)>>>>
        ELSE <<>>)

\* create_grid_edges when no argmin fails: the list of (grid_id1, grid_id2)
create_grid_edges(bins, lon_bins, centers) ==
    EdgeIds(bins, lon_bins, EdgesUpTo(bins, lon_bins, NBins(bins)))

\* nx.Graph() with the cells as nodes and add_edges_from(edge_list): an edge adds
\* its endpoints as nodes and is kept once, whatever its direction
Graph(centers, edges) ==
    [nodes |-> {centers[i][3] : i \in 1..Len(centers)}
               \cup {edges[i][1] : i \in 1..Len(edges)}
               \cup {edges[i][2] : i \in 1..Len(edges)},
     edges |-> {{edges[i][1], edges[i][2]} : i \in 1..Len(edges)}]

(***************************************************************************)
(* spatial/distance.py: calculate_haversine_distances.                     *)
(***************************************************************************)
\* Earth's mean radius in kilometres.
EarthRadiusKm == 6371

\* The exact mode is used up to this many source x target pairs.
PairThreshold == 1000000

\* np.inf, the entry of a pair the accelerated mode never computed.
Inf == 2000000000

RECURSIVE SqrtSearch(_, _, _)
SqrtSearch(n, lo, hi) ==
    IF lo >= hi THEN lo
    ELSE LET mid == (lo + hi + 1) \div 2
         IN  IF mid * mid <= n THEN SqrtSearch(n, mid, hi)
             ELSE SqrtSearch(n, lo, mid - 1)

\* floor(sqrt(n)) for 0 <= n < 2^31
ISqrt(n) == SqrtSearch(n, 0, Min2(n, 46340))

\* The length in decametres of an arc of d angle units on a sphere of radius
\* EarthRadiusKm: d * (pi / 180) * 6371 km / DegScale = d * 1.1119 dam.
ArcDam(d) == (Abs(d) * ((EarthRadiusKm * 17453) \div 10000)) \div 10000

\* The haversine distance of two (lat, lon) points, in decametres: for the
\* small angles of a grid, R * 2 * asin(sqrt(a)) with
\* a = sin^2(dlat/2) + cos(lat1) cos(lat2) sin^2(dlon/2) is
\* sqrt(dy^2 + cos(lat1) cos(lat2) dx^2) for the arcs dy, dx.
Haversine(p, q) ==
    LET dy == ArcDam(q[1] - p[1])
        dx == ArcDam(q[2] - p[2])
    IN  ISqrt(dy * dy
              + ((dx * Cos1000(p[1])) \div 1000) * ((dx * Cos1000(q[1])) \div 1000))

\* The Euclidean distance of two points in (radian lat, radian lon) space,
\* scaled by the Earth radius to decametres: what the cKDTree measures.
\* Beyond 300 km along one axis the larger of the two arcs stands for the
\* distance, which keeps the squares within 32 bits.
EuclidRad(p, q) ==
    LET dy == ArcDam(q[1] - p[1])
        dx == ArcDam(q[2] - p[2])
    IN  IF Max2(dx, dy) > 30000 THEN Max2(dx, dy) ELSE ISqrt(dy * dy + dx * dx)

\* radius_km in decametres
KmToDam(km) == km * 100

\* None for radius_km
NoRadius == -1000000

\* (mutant) the accelerated mode is taken from PairThreshold entries on
UsesAcceleratedFromThreshold(n_source, n_target, radius_km) ==
    radius_km # NoRadius /\ n_source * n_target >= PairThreshold

\* The accelerated mode is taken when radius_km is given and the matrix has
\* more than PairThreshold entries.
UsesAccelerated(n_source, n_target, radius_km) ==
    radius_km # NoRadius /\ n_source * n_target > PairThreshold

\* (mutant) the search radius shrinks as radius_km grows:
\* search_radius_rad = (25 - radius_km * 1.2) / 6371
InBallShrinking(p, q, radius_km) == 10 * EuclidRad(p, q) <= 10 * KmToDam(25) - 12 * KmToDam(radius_km)

\* tree.query_ball_point(source_point, search_radius_rad), with
\* search_radius_rad = radius_km * 1.2 / 6371
InBall(p, q, radius_km) == 10 * EuclidRad(p, q) <= 12 * KmToDam(radius_km)

\* (mutant) a pair the tree query returned gets the distance the tree measured
DistancesAcceleratedByTree(source_coords, target_coords, radius_km) ==
    [i \in 1..Len(source_coords) |->
        [j \in 1..Len(target_coords) |->
            IF InBall(source_coords[i], target_coords[j], radius_km)
            THEN EuclidRad(source_coords[i], target_coords[j])
            ELSE Inf]]

\* Lines 110-138: the accelerated mode.  A pair the tree query returned gets
\* its haversine distance, in decametres; every other pair keeps np.inf.
DistancesAccelerated(source_coords, target_coords, radius_km) ==
    [i \in 1..Len(source_coords) |->
        [j \in 1..Len(target_coords) |->
            IF InBall(source_coords[i], target_coords[j], radius_km)
            THEN Haversine(source_coords[i], target_coords[j])
            ELSE Inf]]

\* Lines 141-144: the exact mode, the full matrix of haversine distances, in
\* decametres.
DistancesExact(source_coords, target_coords) ==
    [i \in 1..Len(source_coords) |->
        [j \in 1..Len(target_coords) |->
            Haversine(source_coords[i], target_coords[j])]]

\* distances[i][j] in decametres
calculate_haversine_distances(source_coords, target_coords, radius_km) ==
    IF UsesAccelerated(Len(source_coords), Len(target_coords), radius_km)
    THEN DistancesAccelerated(source_coords, target_coords, radius_km)
    ELSE DistancesExact(source_coords, target_coords)

(***************************************************************************)
(* Point tables.  A table is [numeric |-> the names of its columns of a    *)
(* numeric dtype, rows |-> its rows]; a row maps column names to values.   *)
(***************************************************************************)
\* df.empty
Empty(df) == df.rows = <<>>

\* df[['latitude', 'longitude']].values
Coords(df) == [j \in 1..Len(df.rows) |-> <<df.rows[j].latitude, df.rows[j].longitude>>]

RECURSIVE SumSeq(_)
SumSeq(s) == IF s = <<>> THEN 0 ELSE s[1] + SumSeq(Tail(s))

IsNotNaN(v) == v # NaN

\* Series.mean(): the mean of the values that are not missing, NaN when there
\* is none (the quotient is rounded down to an integer).
Mean(vals) ==
    LET valid == SelectSeq(vals, IsNotNaN)
    IN  IF valid = <<>> THEN NaN ELSE SumSeq(valid) \div Len(valid)

\* Series.max(): the largest value that is not missing, NaN when there is none.
SeriesMax(vals) ==
    LET valid == {vals[k] : k \in {k \in 1..Len(vals) : vals[k] # NaN}}
    IN  IF valid = {} THEN NaN ELSE CHOOSE m \in valid : \A v \in valid : v <= m

\* np.isnan(series).all()
AllNaN(vals) == \A k \in 1..Len(vals) : vals[k] = NaN

\* (mutant) a point at exactly radius_km is left out
InRadiusStrict(row, radius_km) ==
    LET hit(j) == row[j] < KmToDam(radius_km)
    IN  SelectSeq([j \in 1..Len(row) |-> j], hit)

\* np.where(distances[i, :] <= radius_km)[0], ascending
InRadius(row, radius_km) ==
    LET hit(j) == row[j] <= KmToDam(radius_km)
    IN  SelectSeq([j \in 1..Len(row) |-> j], hit)

\* df.iloc[indices][col] as a sequence of values
Column(df, indices, col) == [k \in 1..Len(indices) |-> df.rows[indices[k]][col]]

(***************************************************************************)
(* spatial/graph_builder.py: the two batch workers.  A batch is            *)
(* <<start_idx, end_idx, node_ids_batch>> with 0-based indices, as in the  *)
(* code.                                                                   *)
(***************************************************************************)
\* (mutant) the slice is taken from the start of the array: array[0:end - start]
SliceFromStart(array, start, end) == SubSeq(array, 1, Min2(end - start, Len(array)))

\* array[start:end]
Slice(array, start, end) == SubSeq(array, start + 1, Min2(end, Len(array)))

DefaultFire == [fire_count |-> 0, avg_bright_ti4 |-> 0, avg_frp |-> 0, max_frp |-> 0]

\* the fire features of the node whose row of the distance matrix is row
FireFeatures(row, firms_df, radius_km) ==
    LET in_radius_indices == InRadius(row, radius_km)
        frp == Column(firms_df, in_radius_indices, "frp")
    IN  IF Len(in_radius_indices) > 0
        THEN [fire_count     |-> Len(in_radius_indices),
              avg_bright_ti4 |-> Mean(Column(firms_df, in_radius_indices, "bright_ti4")),
              avg_frp        |-> Mean(frp),
              max_frp        |-> IF ~AllNaN(frp) THEN SeriesMax(frp) ELSE 0]
        ELSE DefaultFire

\* the last position of node_id in the batch: a later assignment to
\* batch_features[node_id] replaces an earlier one
LastIndex(ids, node_id) ==
    CHOOSE i \in 1..Len(ids) : ids[i] = node_id /\ \A k \in (i + 1)..Len(ids) : ids[k] # node_id

IdSet(ids) == {ids[i] : i \in 1..Len(ids)}

\* (mutant) every node of the batch reads the first row of the matrix
FireBatchFeaturesFirstRow(node_batch, distances, firms_df, radius_km) ==
    [node_id \in IdSet(node_batch[3]) |-> FireFeatures(distances[1], firms_df, radius_km)]

\* Lines 40-61: batch_features, from the distance matrix of the batch
FireBatchFeatures(node_batch, distances, firms_df, radius_km) ==
    [node_id \in IdSet(node_batch[3]) |->
        FireFeatures(distances[LastIndex(node_batch[3], node_id)], firms_df, radius_km)]

process_node_features_fire(node_batch, node_coords_array, fire_coords, firms_df, radius_km) ==
    LET batch_coords == Slice(node_coords_array, node_batch[1], node_batch[2])
        distances == calculate_haversine_distances(batch_coords, fire_coords, radius_km)
    IN  FireBatchFeatures(node_batch, distances, firms_df, radius_km)

\* (mutant) latitude and longitude become weather features too
NumericColsAll(weather_df) == weather_df.numeric

\* The columns that become weather features.
NumericCols(weather_df) == weather_df.numeric \ {"latitude", "longitude"}

\* (mutant) only the nearest of the selected points is kept
NearestOnly(indices, row) ==
    IF indices = {} THEN <<>>
    ELSE <<CHOOSE j \in indices :
               \A k \in indices : row[j] < row[k] \/ (row[j] = row[k] /\ j <= k)>>

RECURSIVE SortByDistance(_, _)
\* np.argsort(nearby_distances) applied to the selected indices
SortByDistance(indices, row) ==
    IF indices = {} THEN <<>>
    ELSE LET first == CHOOSE j \in indices :
                        \A k \in indices : row[j] < row[k] \/ (row[j] = row[k] /\ j <= k)
         IN  <<first>> \o SortByDistance(indices \ {first}, row)

\* the weather features of the node whose row of the distance matrix is row; the
\* empty mapping when no point is within radius
WeatherFeatures(row, weather_df, radius_km, is_forecast) ==
    LET in_radius_indices == InRadius(row, radius_km)
        nearby_weather == IF Len(in_radius_indices) > 1
                          THEN SortByDistance(IdSet(in_radius_indices), row)
                          ELSE in_radius_indices
        prefix == IF is_forecast THEN "forecast_" ELSE "current_"
        cols == NumericCols(weather_df)
        col_of(key) == CHOOSE col \in cols : prefix \o col = key
    IN  IF Len(in_radius_indices) > 0
        THEN [key \in {prefix \o col : col \in cols} |->
                Mean(Column(weather_df, nearby_weather, col_of(key)))]
        ELSE <<>>

\* the positions of node_id in the batch whose node has a point within radius
Hits(node_batch, distances, node_id, radius_km) ==
    {i \in 1..Len(node_batch[3]) :
        node_batch[3][i] = node_id /\ Len(InRadius(distances[i], radius_km)) > 0}

\* Lines 86-114: batch_features, from the distance matrix of the batch
WeatherBatchFeatures(node_batch, distances, weather_df, radius_km, is_forecast) ==
    LET last(S) == CHOOSE i \in S : \A k \in S : k <= i
    IN  [node_id \in IdSet(node_batch[3]) |->
            IF Hits(node_batch, distances, node_id, radius_km) = {} THEN <<>>
            ELSE WeatherFeatures(distances[last(Hits(node_batch, distances, node_id, radius_km))],
                                 weather_df, radius_km, is_forecast)]

process_node_features_weather(node_batch, node_coords_array, weather_coords, weather_df, radius_km, is_forecast) ==
    LET batch_coords == Slice(node_coords_array, node_batch[1], node_batch[2])
        distances == calculate_haversine_distances(batch_coords, weather_coords, radius_km)
    IN  WeatherBatchFeatures(node_batch, distances, weather_df, radius_km, is_forecast)

(***************************************************************************)
(* utils/parallel.py create_node_batches, inlined in create_spatial_graph. *)
(***************************************************************************)
\* (mutant) the batch size rounded up: one batch for each worker
BatchSizeCeil(n_nodes, n_workers) == Max2(1, CeilDiv(n_nodes, n_workers))

BatchSize(n_nodes, n_workers) == Max2(1, n_nodes \div n_workers)

\* (mutant) the end of a batch is not clamped to n_nodes
create_node_batches_unclamped(node_ids, n_workers) ==
    LET n_nodes == Len(node_ids)
        batch_size == BatchSize(n_nodes, n_workers)
    IN  [k \in 1..CeilDiv(n_nodes, batch_size) |->
            <<(k - 1) * batch_size,
              (k - 1) * batch_size + batch_size,
              Slice(node_ids, (k - 1) * batch_size, (k - 1) * batch_size + batch_size)>>]

\* [(i, min(i + batch_size, n_nodes), node_ids[i:min(i + batch_size, n_nodes)])
\*  for i in range(0, n_nodes, batch_size)]
create_node_batches(node_ids, n_workers) ==
    LET n_nodes == Len(node_ids)
        batch_size == BatchSize(n_nodes, n_workers)
    IN  [k \in 1..CeilDiv(n_nodes, batch_size) |->
            <<(k - 1) * batch_size,
              Min2((k - 1) * batch_size + batch_size, n_nodes),
              Slice(node_ids, (k - 1) * batch_size,
                    Min2((k - 1) * batch_size + batch_size, n_nodes))>>]

\* (mutant) the record is replaced by the features: node_features[id] = features
UpdateReplace(record, features) == features

\* dict.update: the keys of features are set, every other key is kept
Update(record, features) == features @@ record

\* (mutant) node_features becomes the result of the last batch
MergeResultsLast(features, batch_results, k) ==
    IF batch_results = <<>> THEN features ELSE batch_results[Len(batch_results)]

RECURSIVE MergeResults(_, _, _)
\* for batch_result in results: for node_id, features in batch_result.items():
\*     node_features[node_id].update(features)
MergeResults(features, batch_results, k) ==
    IF k > Len(batch_results) THEN features
    ELSE MergeResults(
            [node_id \in DOMAIN features |->
                IF node_id \in DOMAIN batch_results[k]
                THEN Update(features[node_id], batch_results[k][node_id])
                ELSE features[node_id]],
            batch_results, k + 1)

(***************************************************************************)
(* Bounds and inputs of the model.                                         *)
(***************************************************************************)
\* n_workers ranges over 1..MaxWorkers
MaxWorkers == 2

\* a table has at most MaxRows rows
MaxRows == 2

\* at most MaxFailures workers raise in one call
MaxFailures == 1

\* The calls of create_grid_cells that are tried.
GridArgs ==
    LET call(a, b, c, d, g) ==
            [min_lat |-> a, max_lat |-> b, min_lon |-> c, max_lon |-> d, grid_size_km |-> g]
    IN  { call(300000, 301000, -1200000, -1198000, 10),  \* 2 bands of 2 cells
          call(300000, 300500, -1200000, -1197500, 10),  \* 1 band of 3 cells
          call(800000, 801000, 0, 10400, 10),            \* bands of 3 and of 2 cells
          call(0, 50, 810, 950, 1),                      \* 1 band of 2 cells, 1 km wide
          call(860000, 861900, 0, 40000, 10),            \* bands of 4, 3 and 3 cells
          call(0, 1800, 0, 500, 10),                     \* 2 steps tall, 1 cell wide
          call(300000, 300000, -1200000, -1198000, 10),  \* min_lat = max_lat
          call(301000, 300000, -1200000, -1198000, 10),  \* min_lat > max_lat
          call(300000, 301000, -1200000, -1198000, 0),   \* grid_size_km = 0
          call(300000, 301000, -1200000, -1198000, -10) }\* grid_size_km < 0

\* The search radii that are tried, in km.
Radii == {-5, 0, 10}

FireRow(lat, lon, b, f) == [latitude |-> lat, longitude |-> lon, bright_ti4 |-> b, frp |-> f]

WeatherRow(lat, lon, t, h) ==
    [latitude |-> lat, longitude |-> lon, temperature |-> t, humidity |-> h]

\* The rows a fire table is made of, placed relative to the corner of the box:
\* the first is the centre of the first cell of the 1 km grid.
FireRows(a) ==
    << FireRow(a.min_lat + 45, a.min_lon + 45, 300, 20),
       FireRow(a.min_lat + 450, a.min_lon + 1500, NaN, NaN),
       FireRow(a.min_lat + 45, a.min_lon + 135, 320, 40) >>

WeatherRows(a) ==
    << WeatherRow(a.min_lat + 45, a.min_lon + 45, 30, 10),
       WeatherRow(a.min_lat + 40, a.min_lon + 600, 21, 50),
       WeatherRow(a.min_lat + 45, a.min_lon + 135, 12, 70) >>

\* the tables made of the first n rows, n in sizes
Tables(numeric, rows, sizes) ==
    {[numeric |-> numeric, rows |-> SubSeq(rows, 1, Min2(n, Len(rows)))] : n \in sizes}

\* the fire tables of 0..MaxRows rows
FireTables(a) ==
    Tables({"latitude", "longitude", "bright_ti4", "frp"}, FireRows(a), 0..MaxRows)

\* the empty weather table and the one of MaxRows rows
WeatherTables(a) ==
    Tables({"latitude", "longitude", "temperature", "humidity"}, WeatherRows(a), {0, MaxRows})

(***************************************************************************)
(* State of one call of create_spatial_graph.                              *)
(***************************************************************************)
VARIABLES
    args,               \* the arguments of the call
    pc,                 \* where the driver is
    pass,               \* the index in PassOrder of the current aggregation pass
    error,              \* the exception the call raised, "none" when none
    lat_bins, lon_bins_by_lat, cell_centers,    \* the grid
    node_ids, node_coords_array,
    node_features,
    node_batches,       \* the local node_batches ...
    batches_bound,      \* ... and whether it has been assigned
    status,             \* the state of each future of the running executor.map
    results,            \* the value of each finished future
    edge_list,          \* the result of create_grid_edges
    G,                  \* the graph that is returned
    completion_order,   \* history: the batches of this pass in the order they finished
    attempts,           \* history: how often each batch of this pass was started
    failures,           \* history: how many workers have raised
    features_at_begin,  \* history: node_features when the current pass began
    pass_state          \* history: what became of each source's pass

vars == <<args, fp_rounds_up, pc, pass, error, lat_bins, lon_bins_by_lat, cell_centers, node_ids,
          node_coords_array, node_features, node_batches, batches_bound, status, results,
          edge_list, G, completion_order, attempts, failures, features_at_begin, pass_state>>

grid_vars == <<lat_bins, lon_bins_by_lat, cell_centers, node_ids, node_coords_array>>

pool_vars == <<status, results, completion_order, attempts>>

graph_vars == <<edge_list, G>>

\* (mutant) the forecast pass before the current weather pass
PassOrderSwapped == <<"fire", "forecast", "current">>

\* The order of the three aggregation passes.
PassOrder == <<"fire", "current", "forecast">>

Source == PassOrder[pass]

\* the table of a source
TableOf(source) ==
    IF source = "fire" THEN args.firms_df
    ELSE IF source = "current" THEN args.current_weather_df
    ELSE args.forecast_weather_df

Init ==
    /\ \E a \in GridArgs, r \in Radii, n \in 1..MaxWorkers :
       \E f \in FireTables(a), c \in WeatherTables(a), w \in WeatherTables(a) :
            args = [min_lat |-> a.min_lat, max_lat |-> a.max_lat,
                    min_lon |-> a.min_lon, max_lon |-> a.max_lon,
                    grid_size_km |-> a.grid_size_km, radius_km |-> r, n_workers |-> n,
                    firms_df |-> f, current_weather_df |-> c, forecast_weather_df |-> w]
    /\ fp_rounds_up \in IF WholeQuotient(args.min_lat,
                                        args.max_lat + LatGridSize(args.grid_size_km),
                                        LatGridSize(args.grid_size_km))
                        THEN BOOLEAN ELSE {FALSE}
    /\ pc = "start"
    /\ pass = 1
    /\ error = "none"
    /\ lat_bins = <<>>
    /\ lon_bins_by_lat = <<>>
    /\ cell_centers = <<>>
    /\ node_ids = <<>>
    /\ node_coords_array = <<>>
    /\ node_features = <<>>
    /\ node_batches = <<>>
    /\ batches_bound = FALSE
    /\ status = <<>>
    /\ results = <<>>
    /\ edge_list = <<>>
    /\ G = [nodes |-> {}, edges |-> {}]
    /\ completion_order = <<>>
    /\ attempts = <<>>
    /\ failures = 0
    /\ features_at_begin = <<>>
    /\ pass_state = [s \in {"fire", "current", "forecast"} |-> "idle"]

\* Lines 153-178: the grid, the node lists and the default feature records.
\* np.arange divides by its step: a step of 0 raises ZeroDivisionError.
CreateGrid ==
    /\ pc = "start"
    /\ IF LatGridSize(args.grid_size_km) = 0
       THEN /\ pc' = "raised"
            /\ error' = "ZeroDivisionError"
            /\ UNCHANGED <<grid_vars, node_features>>
       ELSE LET g == create_grid_cells(args.min_lat, args.max_lat, args.min_lon,
                                       args.max_lon, args.grid_size_km)
                ids == [i \in 1..Len(g.cell_centers) |-> g.cell_centers[i][3]]
            IN  /\ lat_bins' = g.lat_bins
                /\ lon_bins_by_lat' = g.lon_bins_by_lat
                /\ cell_centers' = g.cell_centers
                /\ node_coords_array' =
                        [i \in 1..Len(g.cell_centers) |->
                            <<g.cell_centers[i][1], g.cell_centers[i][2]>>]
                /\ node_ids' = ids
                /\ node_features' = [grid_id \in IdSet(ids) |-> DefaultFire]
                /\ pc' = "begin"
                /\ error' = "none"
    /\ UNCHANGED <<args, fp_rounds_up, failures, pass, node_batches, batches_bound, pool_vars, graph_vars,
                   features_at_begin, pass_state>>

\* the driver after the pass of PassOrder[pass]: the next pass, or the edges
AfterPass ==
    IF pass < Len(PassOrder)
    THEN pc' = "begin" /\ pass' = pass + 1
    ELSE pc' = "edges" /\ pass' = pass

\* Lines 181-207, 217-233, 243-259: a pass is skipped when its table is empty;
\* the fire pass makes node_batches, the weather passes read it (NameError when
\* the fire pass was skipped); executor.map submits every batch.
BeginPass ==
    /\ pc = "begin"
    /\ features_at_begin' = node_features
    /\ IF Empty(TableOf(Source))
       THEN /\ AfterPass
            /\ pass_state' = [pass_state EXCEPT ![Source] = "skipped"]
            /\ UNCHANGED <<error, node_batches, batches_bound, pool_vars>>
       ELSE IF Source # "fire" /\ ~batches_bound
       THEN /\ pc' = "raised"
            /\ error' = "NameError"
            /\ pass_state' = [pass_state EXCEPT ![Source] = "aborted"]
            /\ UNCHANGED <<pass, node_batches, batches_bound, pool_vars>>
       ELSE LET batches == IF Source = "fire"
                           THEN create_node_batches(node_ids, args.n_workers)
                           ELSE node_batches
            IN  /\ node_batches' = batches
                /\ batches_bound' = TRUE
                /\ status' = [b \in 1..Len(batches) |-> "pending"]
                /\ results' = [b \in 1..Len(batches) |-> <<>>]
                /\ attempts' = [b \in 1..Len(batches) |-> 0]
                /\ completion_order' = <<>>
                /\ pc' = "map"
                /\ pass_state' = [pass_state EXCEPT ![Source] = "mapping"]
                /\ UNCHANGED <<pass, error>>
    /\ UNCHANGED <<args, fp_rounds_up, failures, grid_vars, node_features, graph_vars>>

Running == {b \in DOMAIN status : status[b] = "running"}

\* A worker process takes the next submitted batch off the call queue, which
\* is first in first out; at most n_workers run at a time.
WorkerStart(b) ==
    /\ pc \in {"map", "abort"}
    /\ status[b] = "pending"
    /\ \A c \in DOMAIN status : c < b => status[c] # "pending"
    /\ Cardinality(Running) < args.n_workers
    /\ status' = [status EXCEPT ![b] = "running"]
    /\ attempts' = [attempts EXCEPT ![b] = @ + 1]
    /\ UNCHANGED <<args, fp_rounds_up, failures, pc, pass, error, grid_vars, node_features, node_batches,
                   batches_bound, results, completion_order, features_at_begin, pass_state,
                   graph_vars>>

\* process_fire_batch_wrapper / process_weather_batch_wrapper on batch b with
\* the batch_args of the pass of source
BatchResultOf(source, b) ==
    IF source = "fire"
    THEN process_node_features_fire(node_batches[b], node_coords_array,
                                    Coords(args.firms_df), args.firms_df, args.radius_km)
    ELSE process_node_features_weather(node_batches[b], node_coords_array,
                                       Coords(TableOf(source)), TableOf(source),
                                       args.radius_km, source = "forecast")

BatchResult(b) == BatchResultOf(Source, b)

\* A worker returns the features of its batch.
WorkerFinish(b) ==
    /\ pc \in {"map", "abort"}
    /\ status[b] = "running"
    /\ status' = [status EXCEPT ![b] = "done"]
    /\ results' = [results EXCEPT ![b] = BatchResult(b)]
    /\ completion_order' = Append(completion_order, b)
    /\ UNCHANGED <<args, fp_rounds_up, failures, pc, pass, error, grid_vars, node_features, node_batches,
                   batches_bound, attempts, features_at_begin, pass_state, graph_vars>>

\* A worker raises while it processes its batch.
WorkerFail(b) ==
    /\ pc \in {"map", "abort"}
    /\ status[b] = "running"
    /\ failures < MaxFailures
    /\ failures' = failures + 1
    /\ status' = [status EXCEPT ![b] = "failed"]
    /\ completion_order' = Append(completion_order, b)
    /\ UNCHANGED <<args, fp_rounds_up, pc, pass, error, grid_vars, node_features, node_batches,
                   batches_bound, results, attempts, features_at_begin, pass_state,
                   graph_vars>>

\* (mutant) the values in the order the futures completed, as as_completed
\* gives them
MapResultsAsCompleted(values, order) == [k \in 1..Len(order) |-> values[order[k]]]

\* (mutant) the failed futures are passed over
MapReturnedLenient(st) == \A b \in DOMAIN st : st[b] \in {"done", "failed"}

\* results = list(executor.map(...)): the values of the futures, in the order the
\* batches were submitted
MapResults(values, order) == values

\* list(executor.map(...)) has returned: every future holds a value
MapReturned(st) == \A b \in DOMAIN st : st[b] = "done"

\* list(executor.map(...)) raises at the first future, in the order of
\* submission, that holds an exception
MapRaised(st) ==
    \E b \in DOMAIN st : st[b] = "failed" /\ \A k \in 1..(b - 1) : st[k] = "done"

\* Lines 207-212, 233-238, 259-264: the results are merged and the driver moves on.
Merge ==
    /\ pc = "map"
    /\ MapReturned(status)
    /\ node_features' = MergeResults(node_features, MapResults(results, completion_order), 1)
    /\ pass_state' = [pass_state EXCEPT ![Source] = "merged"]
    /\ AfterPass
    /\ UNCHANGED <<args, fp_rounds_up, failures, error, grid_vars, node_batches, batches_bound, pool_vars,
                   features_at_begin, graph_vars>>

\* The exception leaves list(): the result iterator cancels the futures that
\* have not started and the with block waits for the running ones.
Abort ==
    /\ pc = "map"
    /\ MapRaised(status)
    /\ status' = [b \in DOMAIN status |->
                    IF status[b] = "pending" THEN "cancelled" ELSE status[b]]
    /\ pc' = "abort"
    /\ pass_state' = [pass_state EXCEPT ![Source] = "aborted"]
    /\ UNCHANGED <<args, fp_rounds_up, failures, pass, error, grid_vars, node_features, node_batches,
                   batches_bound, results, completion_order, attempts, features_at_begin,
                   graph_vars>>

\* The executor has shut down: the exception reaches the caller.
Raise ==
    /\ pc = "abort"
    /\ Running = {}
    /\ pc' = "raised"
    /\ error' = "WorkerError"
    /\ UNCHANGED <<args, fp_rounds_up, failures, pass, grid_vars, node_features, node_batches, batches_bound,
                   pool_vars, features_at_begin, pass_state, graph_vars>>

\* Lines 268-289: the graph is built and (G, node_features) is returned.
Return ==
    /\ pc = "edges"
    /\ IF ArgminFails(lat_bins, lon_bins_by_lat)
       THEN /\ pc' = "raised"
            /\ error' = "ValueError"
            /\ UNCHANGED graph_vars
       ELSE /\ edge_list' = create_grid_edges(lat_bins, lon_bins_by_lat, cell_centers)
            /\ G' = Graph(cell_centers,
                          create_grid_edges(lat_bins, lon_bins_by_lat, cell_centers))
            /\ pc' = "returned"
            /\ error' = "none"
    /\ UNCHANGED <<args, fp_rounds_up, failures, pass, grid_vars, node_features, node_batches,
                   batches_bound, pool_vars, features_at_begin, pass_state>>

Next ==
    \/ CreateGrid
    \/ BeginPass
    \/ \E b \in DOMAIN status : WorkerStart(b)
    \/ \E b \in DOMAIN status : WorkerFinish(b)
    \/ \E b \in DOMAIN status : WorkerFail(b)
    \/ Merge
    \/ Abort
    \/ Raise
    \/ Return

Spec == Init /\ [][Next]_vars

(***************************************************************************)
(* Definitions the properties share.                                       *)
(***************************************************************************)
FireKeys == {"fire_count", "avg_bright_ti4", "avg_frp", "max_frp"}

WeatherColumns == {"temperature", "humidity"}

CurrentKeys == {"current_" \o col : col \in WeatherColumns}

ForecastKeys == {"forecast_" \o col : col \in WeatherColumns}

\* the source whose pass sets feature key
OwnerOf(key) ==
    IF key \in FireKeys THEN "fire"
    ELSE IF key \in CurrentKeys THEN "current"
    ELSE "forecast"

\* the position of a source in the order fire, current weather, forecast weather
Rank(source) ==
    IF source = "fire" THEN 1 ELSE IF source = "current" THEN 2 ELSE 3

RECURSIVE FeaturesAfter(_)
\* node_features after the passes of the first k sources, each pass merging the
\* results of its batches in the order of the batches
FeaturesAfter(k) ==
    IF k = 0 THEN [grid_id \in IdSet(node_ids) |-> DefaultFire]
    ELSE LET source == <<"fire", "current", "forecast">>[k]
         IN  IF Empty(TableOf(source)) THEN FeaturesAfter(k - 1)
             ELSE MergeResults(FeaturesAfter(k - 1),
                               [b \in 1..Len(node_batches) |-> BatchResultOf(source, b)], 1)

SomeFailed == \E b \in DOMAIN status : status[b] = "failed"

BatchIds(b) == node_batches[b][3]

(***************************************************************************)
(* C1.  When a worker raises in a pass, the call ends by raising: the pass *)
(* merges nothing into node_features (the results of the batches that      *)
(* succeeded are dropped too), no later source's pass begins, no batch is  *)
(* started a second time, and the driver can only go on to the exception.  *)
(***************************************************************************)
C1_WorkerFailureAborts ==
    SomeFailed =>
        /\ pc \in {"map", "abort", "raised"}
        /\ node_features = features_at_begin
        /\ \A s \in DOMAIN pass_state : Rank(s) > Rank(Source) => pass_state[s] = "idle"
        /\ \A b \in DOMAIN attempts : attempts[b] <= 1
        /\ (pc = "raised" => error = "WorkerError")
        /\ (pc = "map" =>
                \/ MapRaised(status)
                \/ Running # {}
                \/ \E b \in DOMAIN status : status[b] = "pending")

\* a fire pass in which one batch found fires and another raised has ended in the
\* exception, with weather tables still waiting
C1_Witness ==
    /\ pc = "raised"
    /\ error = "WorkerError"
    /\ Source = "fire"
    /\ ~Empty(args.current_weather_df)
    /\ \E b \in DOMAIN status :
          /\ status[b] = "done"
          /\ \E id \in DOMAIN results[b] : results[b][id].fire_count > 0

(***************************************************************************)
(* C2.  The passes run in the order fire, current weather, forecast        *)
(* weather: a source's pass has begun only when the pass of every earlier  *)
(* source is over, skipped or merged, and while the batches of a pass run  *)
(* node_features holds the merged results of all earlier passes: it holds  *)
(* them when the batches are submitted and is as it was then ever after.   *)
(***************************************************************************)
C2_PassesInOrder ==
    /\ \A s \in DOMAIN pass_state :
          pass_state[s] # "idle" =>
              \A t \in DOMAIN pass_state :
                  Rank(t) < Rank(s) => pass_state[t] \in {"merged", "skipped"}
    /\ pc \in {"map", "abort"} =>
          /\ pass_state[Source] \in {"mapping", "aborted"}
          /\ node_features = features_at_begin
          /\ (\A b \in DOMAIN status : status[b] = "pending") =>
                node_features = FeaturesAfter(Rank(Source) - 1)

\* a forecast batch runs after the fire and current passes were merged
C2_Witness ==
    /\ pc = "map"
    /\ Source = "forecast"
    /\ Running # {}
    /\ pass_state["fire"] = "merged"
    /\ pass_state["current"] = "merged"
    /\ \E id \in DOMAIN node_features :
          /\ node_features[id].fire_count > 0
          /\ "current_temperature" \in DOMAIN node_features[id]

(***************************************************************************)
(* C3.  The node_features that is returned is the one the passes give when *)
(* every pass merges its batches in the order of submission, whatever the  *)
(* order in which the workers finished.                                    *)
(***************************************************************************)
C3_CompletionOrderIrrelevant ==
    pc = "returned" => node_features = FeaturesAfter(3)

\* returned after a last pass whose second batch finished before its first
C3_Witness ==
    /\ pc = "returned"
    /\ Len(completion_order) >= 2
    /\ completion_order[1] > completion_order[2]
    /\ \E id \in DOMAIN node_features : node_features[id].fire_count > 0

(***************************************************************************)
(* C4.  No cell id is an output key of two batches, and no id occurs twice *)
(* in one batch.                                                           *)
(***************************************************************************)
C4_BatchKeysDisjoint ==
    batches_bound =>
        /\ \A b1, b2 \in DOMAIN node_batches :
              b1 # b2 => IdSet(BatchIds(b1)) \cap IdSet(BatchIds(b2)) = {}
        /\ \A b \in DOMAIN node_batches :
              Cardinality(IdSet(BatchIds(b))) = Len(BatchIds(b))

(***************************************************************************)
(* C5.  As claimed: every batch but the last holds ceil(N / n) cells.      *)
(***************************************************************************)
C5_BatchSizeIsCeil ==
    batches_bound =>
        \A b \in 1..(Len(node_batches) - 1) :
            Len(BatchIds(b)) = CeilDiv(Len(node_ids), args.n_workers)

(***************************************************************************)
(* C5, amended.  Every batch but the last holds max(1, floor(N / n))       *)
(* cells, and the last holds at least one and at most as many.             *)
(***************************************************************************)
C5_BatchSizeIsFloor ==
    batches_bound =>
        LET size == Max2(1, Len(node_ids) \div args.n_workers)
        IN  /\ \A b \in 1..(Len(node_batches) - 1) : Len(BatchIds(b)) = size
            /\ Len(node_batches) > 0 =>
                  /\ Len(BatchIds(Len(node_batches))) >= 1
                  /\ Len(BatchIds(Len(node_batches))) <= size

\* five cells for two workers: batches of 2, 2 and 1 cells, where ceil(5/2) = 3
C5_Witness ==
    /\ batches_bound
    /\ Len(node_ids) = 5
    /\ args.n_workers = 2
    /\ Len(node_batches) = 3

(***************************************************************************)
(* C6.  The batches partition the indices 0..N-1: the first starts at 0,   *)
(* each starts where the one before ended, the last ends at N, none is     *)
(* empty, each holds node_ids[start:end], and every index is in exactly    *)
(* one batch.                                                              *)
(***************************************************************************)
C6_BatchesPartition ==
    batches_bound =>
        LET n == Len(node_ids)
            m == Len(node_batches)
        IN  /\ (n = 0) = (m = 0)
            /\ m > 0 => node_batches[1][1] = 0 /\ node_batches[m][2] = n
            /\ \A b \in 1..m :
                  /\ node_batches[b][1] < node_batches[b][2]
                  /\ Len(BatchIds(b)) = node_batches[b][2] - node_batches[b][1]
                  /\ \A i \in 1..Len(BatchIds(b)) :
                        /\ node_batches[b][1] + i <= n
                        /\ BatchIds(b)[i] = node_ids[node_batches[b][1] + i]
            /\ \A b \in 1..(m - 1) : node_batches[b + 1][1] = node_batches[b][2]
            /\ \A i \in 0..(n - 1) :
                  Cardinality({b \in 1..m : node_batches[b][1] <= i
                                            /\ i < node_batches[b][2]}) = 1

\* a partition whose last batch is shorter than the others
C6_Witness ==
    /\ batches_bound
    /\ Len(node_batches) >= 2
    /\ Len(BatchIds(Len(node_batches))) < Len(BatchIds(1))

(***************************************************************************)
(* C7.  A step never changes or removes a feature that belongs to another  *)
(* source than the one whose pass is running: the weather passes leave the *)
(* four fire features as they are, the forecast pass leaves every          *)
(* current_* feature as it is.                                             *)
(***************************************************************************)
C7_PassKeepsOtherSources ==
    [][pc # "start" =>
        \A id \in DOMAIN node_features :
            /\ id \in DOMAIN node_features'
            /\ \A key \in DOMAIN node_features[id] :
                  OwnerOf(key) # Source =>
                      /\ key \in DOMAIN node_features'[id]
                      /\ node_features'[id][key] = node_features[id][key]]_vars

\* a returned record that holds features of all three sources
C7_Witness ==
    /\ pc = "returned"
    /\ \E id \in DOMAIN node_features :
          /\ node_features[id].fire_count > 0
          /\ CurrentKeys \subseteq DOMAIN node_features[id]
          /\ ForecastKeys \subseteq DOMAIN node_features[id]

(***************************************************************************)
(* C8.  node_features holds one record for each cell id of the grid, never *)
(* more, never fewer; every record holds the four fire features, and they  *)
(* are all 0 until the fire pass is merged.                                *)
(***************************************************************************)
C8_OneRecordPerCell ==
    /\ DOMAIN node_features = {cell_centers[i][3] : i \in 1..Len(cell_centers)}
    /\ \A id \in DOMAIN node_features :
          /\ FireKeys \subseteq DOMAIN node_features[id]
          /\ pass_state["fire"] # "merged" =>
                \A key \in FireKeys : node_features[id][key] = 0

\* returned with a record that has weather features beside one that has none
C8_Witness ==
    /\ pc = "returned"
    /\ Cardinality(DOMAIN node_features) >= 3
    /\ \E id \in DOMAIN node_features : DOMAIN node_features[id] = FireKeys
    /\ \E id \in DOMAIN node_features : CurrentKeys \subseteq DOMAIN node_features[id]

(***************************************************************************)
(* C9.  create_grid_cells with min_lat >= max_lat or grid_size_km <= 0     *)
(* fails: the call raises and never goes on with a grid.                   *)
(***************************************************************************)
C9_DegenerateGridFails ==
    (args.min_lat >= args.max_lat \/ args.grid_size_km <= 0) /\ pc # "start" =>
        /\ pc = "raised"
        /\ error # "none"
        /\ \A s \in DOMAIN pass_state : pass_state[s] = "idle"

(***************************************************************************)
(* C10.  create_spatial_graph with radius_km <= 0 reports an error: it     *)
(* never returns a feature map.                                            *)
(***************************************************************************)
C10_InvalidRadiusFails ==
    args.radius_km <= 0 => pc # "returned"

\* the precondition of create_grid_cells: a box that is not empty and a
\* positive cell size
ValidGrid ==
    /\ args.min_lat < args.max_lat
    /\ args.min_lon < args.max_lon
    /\ args.grid_size_km > 0

(***************************************************************************)
(* C11.  For a valid box and cell size no two cells of the grid have the   *)
(* same id.                                                                *)
(***************************************************************************)
C11_GridIdsUnique ==
    ValidGrid /\ pc # "start" =>
        \A i, j \in 1..Len(cell_centers) :
            i # j => cell_centers[i][3] # cell_centers[j][3]

(***************************************************************************)
(* C12.  The edge list of a valid grid has no edge from an id to itself,   *)
(* and no unordered pair of ids occurs twice in it, in either direction.   *)
(***************************************************************************)
C12_EdgeListSimple ==
    ValidGrid /\ pc = "returned" =>
        /\ \A e \in 1..Len(edge_list) : edge_list[e][1] # edge_list[e][2]
        /\ \A e, f \in 1..Len(edge_list) :
              e # f => {edge_list[e][1], edge_list[e][2]} # {edge_list[f][1], edge_list[f][2]}

\* the neighbours of a cell in the undirected graph G
Neighbours(id) == {other \in G.nodes : other # id /\ {id, other} \in G.edges}

(***************************************************************************)
(* C13.  In the graph of a valid grid every cell has at most 8 distinct    *)
(* neighbours.                                                             *)
(***************************************************************************)
C13_DegreeAtMost8 ==
    ValidGrid /\ pc = "returned" =>
        \A id \in G.nodes : Cardinality(Neighbours(id)) <= 8

\* the latitude band of cell i of cell_centers
BandOf(i) ==
    CHOOSE b \in 1..NBins(lat_bins) : BinCenter(lat_bins, b) = cell_centers[i][1]

\* cell q is the next cell to the east of cell p in its band
EastOf(p, q) == q = p + 1 /\ BandOf(q) = BandOf(p)

(***************************************************************************)
(* C14.  Every edge of the edge list joins two cells of the grid: a cell   *)
(* and its east neighbour in the same band, or a cell of band i and a cell *)
(* of band i + 1.  No edge starts in the last band and leaves it.          *)
(***************************************************************************)
C14_EdgesStayInGrid ==
    ValidGrid /\ pc = "returned" =>
        \A e \in 1..Len(edge_list) :
            \E p, q \in 1..Len(cell_centers) :
                /\ cell_centers[p][3] = edge_list[e][1]
                /\ cell_centers[q][3] = edge_list[e][2]
                /\ EastOf(p, q) \/ BandOf(q) = BandOf(p) + 1
                /\ BandOf(p) = NBins(lat_bins) => EastOf(p, q)

\* the edges of a grid of three bands: some go from band 1 to band 2, some from
\* band 2 to band 3, and the last band has east edges only
C14_Witness ==
    /\ ValidGrid
    /\ pc = "returned"
    /\ NBins(lat_bins) = 3
    /\ \A b \in 1..2 :
          \E e \in 1..Len(edge_list), p, q \in 1..Len(cell_centers) :
              /\ cell_centers[p][3] = edge_list[e][1]
              /\ cell_centers[q][3] = edge_list[e][2]
              /\ BandOf(p) = b
              /\ BandOf(q) = b + 1
    /\ \E e \in 1..Len(edge_list), p, q \in 1..Len(cell_centers) :
          /\ cell_centers[p][3] = edge_list[e][1]
          /\ cell_centers[q][3] = edge_list[e][2]
          /\ BandOf(p) = 3
          /\ EastOf(p, q)

\* the coordinates of the cell at position i of batch b
BatchCell(b, i) == node_coords_array[node_batches[b][1] + i]

\* the rows of a table whose haversine distance to a point is <= radius_km
WithinRadius(cell, df, radius_km) ==
    {j \in 1..Len(df.rows) : Haversine(cell, Coords(df)[j]) <= KmToDam(radius_km)}

\* the rows that the tree query of the accelerated mode returns for a point
Prefiltered(cell, df, radius_km) ==
    {j \in 1..Len(df.rows) : InBall(cell, Coords(df)[j], radius_km)}

\* the fire record of a cell when its batch is large enough for the accelerated
\* mode
AcceleratedFire(cell) ==
    FireFeatures(DistancesAccelerated(<<cell>>, Coords(args.firms_df), args.radius_km)[1],
                 args.firms_df, args.radius_km)

\* a fire record counts the rows of near: the default record when there is
\* none, the frp of the row when there is one and its frp is not missing
CountsRows(record, near) ==
    /\ record.fire_count = Cardinality(near)
    /\ near = {} => record = DefaultFire
    /\ \A j \in near :
          near = {j} /\ args.firms_df.rows[j].frp # NaN =>
              /\ record.avg_frp = args.firms_df.rows[j].frp
              /\ record.max_frp = args.firms_df.rows[j].frp

\* executor.map of the fire pass has returned the features of every batch, b
\* among them
FireBatchDone(b) ==
    /\ pc = "map"
    /\ Source = "fire"
    /\ b \in DOMAIN status
    /\ \A c \in DOMAIN status : status[c] = "done"

C16_AllMissingGivesZero ==
    \A b \in DOMAIN status :
        FireBatchDone(b) =>
            \A i \in 1..Len(BatchIds(b)) :
                LET near == WithinRadius(BatchCell(b, i), args.firms_df, args.radius_km)
                    rec  == results[b][BatchIds(b)[i]]
                    missing(col) == \A j \in near : args.firms_df.rows[j][col] = NaN
                IN  near # {} /\ i = LastIndex(BatchIds(b), BatchIds(b)[i]) =>
                        /\ missing("bright_ti4") => rec.avg_bright_ti4 = 0
                        /\ missing("frp") => rec.avg_frp = 0 /\ rec.max_frp = 0
                        /\ \A key \in FireKeys : rec[key] # NaN

\* the feature keys of a weather source: one for each numeric column of the
\* tables but latitude and longitude
KeysOf(source) == IF source = "current" THEN CurrentKeys ELSE ForecastKeys

\* the pass of a weather source has been merged and no later pass has begun
JustMerged(source) ==
    /\ pass_state[source] = "merged"
    /\ \/ source = "current" /\ Source = "forecast" /\ pc = "begin"
       \/ source = "forecast" /\ pc \in {"edges", "returned"}

\* the weather features of a cell when its batch is large enough for the
\* accelerated mode
AcceleratedWeather(cell, source) ==
    WeatherFeatures(DistancesAccelerated(<<cell>>, Coords(TableOf(source)), args.radius_km)[1],
                    TableOf(source), args.radius_km, source = "forecast")

\* no other cell of the grid has the id of cell c
IdIsUnique(c) == \A d \in 1..Len(node_ids) : d # c => node_ids[d] # node_ids[c]

\* the pass of source left the record of cell c as it was when near is empty,
\* and otherwise set the keys of the source and nothing else
PassSetKeys(source, c, near) ==
    LET before == features_at_begin[node_ids[c]]
        after  == node_features[node_ids[c]]
    IN  /\ near = {} => after = before
        /\ near # {} =>
              /\ DOMAIN after = DOMAIN before \cup KeysOf(source)
              /\ \A key \in DOMAIN before \ KeysOf(source) : after[key] = before[key]

RadiiCompared == Radii \cup {5, 20}

\* fire_count of a cell for a radius when its batch is large enough for the
\* accelerated mode
AcceleratedCount(cell, radius_km) ==
    FireFeatures(DistancesAccelerated(<<cell>>, Coords(args.firms_df), radius_km)[1],
                 args.firms_df, radius_km).fire_count

\* the features of fire batch b for another radius
FireBatchAt(b, radius_km) ==
    process_node_features_fire(node_batches[b], node_coords_array, Coords(args.firms_df),
                               args.firms_df, radius_km)

(***************************************************************************)
(* C18.  A larger radius never lowers fire_count: for the cells and fire   *)
(* points of the call and every radius r2 >= radius_km, the fire_count of  *)
(* every cell for r2 is at least the one the batch returned, and the same  *)
(* holds for the counts of the accelerated mode.                           *)
(***************************************************************************)
C18_FireCountMonotone ==
    \A b \in DOMAIN status :
        FireBatchDone(b) =>
            \A r2 \in RadiiCompared :
                r2 >= args.radius_km =>
                    LET larger == FireBatchAt(b, r2)
                    IN  /\ \A id \in DOMAIN results[b] :
                              larger[id].fire_count >= results[b][id].fire_count
                        /\ \A i \in 1..Len(BatchIds(b)) :
                              AcceleratedCount(BatchCell(b, i), r2)
                                  >= AcceleratedCount(BatchCell(b, i), args.radius_km)

\* a cell whose fire_count is higher for a larger radius, in the exact mode and
\* in the accelerated mode
C18_Witness ==
    \E b \in DOMAIN status :
        /\ FireBatchDone(b)
        /\ \E r2 \in RadiiCompared, i \in 1..Len(BatchIds(b)) :
              /\ r2 > args.radius_km
              /\ args.radius_km > 0
              /\ results[b][BatchIds(b)[i]].fire_count > 0
              /\ FireBatchAt(b, r2)[BatchIds(b)[i]].fire_count
                    > results[b][BatchIds(b)[i]].fire_count
              /\ AcceleratedCount(BatchCell(b, i), args.radius_km) > 0
              /\ AcceleratedCount(BatchCell(b, i), r2)
                    > AcceleratedCount(BatchCell(b, i), args.radius_km)

\* The two distance modes.  Which one a batch takes depends on its size: the
\* accelerated one when its cells times the rows of the table exceed
\* PairThreshold.
Modes == {"exact", "accelerated"}

\* the features of a batch when its distances are computed in a mode
BatchFeaturesIn(mode, source, node_batch) ==
    LET batch_coords == Slice(node_coords_array, node_batch[1], node_batch[2])
        df == TableOf(source)
        distances == IF mode = "accelerated"
                     THEN DistancesAccelerated(batch_coords, Coords(df), args.radius_km)
                     ELSE DistancesExact(batch_coords, Coords(df))
    IN  IF source = "fire"
        THEN FireBatchFeatures(node_batch, distances, df, args.radius_km)
        ELSE WeatherBatchFeatures(node_batch, distances, df, args.radius_km,
                                  source = "forecast")

RECURSIVE RunPasses(_, _, _)
\* node_features after the passes of the first k sources of a run with
\* n_workers workers whose batches all take the same mode
RunPasses(n_workers, mode, k) ==
    IF k = 0 THEN [grid_id \in IdSet(node_ids) |-> DefaultFire]
    ELSE LET source  == PassOrder[k]
             batches == create_node_batches(node_ids, n_workers)
         IN  IF Empty(TableOf(source)) THEN RunPasses(n_workers, mode, k - 1)
             ELSE MergeResults(RunPasses(n_workers, mode, k - 1),
                               [b \in 1..Len(batches) |->
                                    BatchFeaturesIn(mode, source, batches[b])], 1)

(***************************************************************************)
(* C19.  As claimed: the feature map of a call is the one that any run on  *)
(* the same grid, tables and radius gives, whatever its worker count and   *)
(* whatever the distance mode that the sizes of its batches select.        *)
(***************************************************************************)
C19_SameForEveryBatching ==
    pc = "returned" =>
        \A n \in 1..MaxWorkers, mode \in Modes :
            node_features = RunPasses(n, mode, Len(PassOrder))

(***************************************************************************)
(* C19, amended.  The feature map of a call is the one that any run on the *)
(* same inputs gives whose batches take the same distance mode, whatever   *)
(* its worker count; and two runs whose batches all take the accelerated   *)
(* mode agree as well.                                                     *)
(***************************************************************************)
C19_SameForEveryWorkerCount ==
    pc = "returned" =>
        \A n \in 1..MaxWorkers :
            /\ node_features = RunPasses(n, "exact", Len(PassOrder))
            /\ RunPasses(n, "accelerated", Len(PassOrder))
                  = RunPasses(args.n_workers, "accelerated", Len(PassOrder))

\* a call with two workers and more than one batch returned fire, current and
\* forecast features, and a run with one worker has other batches
C19_Witness ==
    /\ pc = "returned"
    /\ args.n_workers = 2
    /\ Len(node_batches) >= 2
    /\ create_node_batches(node_ids, 1) # node_batches
    /\ \E id \in DOMAIN node_features :
          /\ node_features[id].fire_count > 0
          /\ CurrentKeys \cup ForecastKeys \subseteq DOMAIN node_features[id]
    /\ \E id \in DOMAIN node_features :
          /\ id \in IdSet(BatchIds(2))
          /\ node_features[id] # DefaultFire

(***************************************************************************)
(* C20.  For a valid box and cell size the latitude bin edges start at     *)
(* min_lat, are lat_step = grid_size_km / 111.0 apart, and the last edge   *)
(* is at least max_lat and less than max_lat + lat_step.                   *)
(***************************************************************************)
C20_LatBinsCoverBox ==
    ValidGrid /\ pc # "start" =>
        LET lat_step == LatGridSize(args.grid_size_km)
        IN  /\ Len(lat_bins) >= 2
            /\ lat_bins[1] = args.min_lat
            /\ \A k \in 1..(Len(lat_bins) - 1) : lat_bins[k + 1] - lat_bins[k] = lat_step
            /\ lat_bins[Len(lat_bins)] >= args.max_lat
            /\ lat_bins[Len(lat_bins)] < args.max_lat + lat_step

\* create_grid_cells has returned and the first pass has not begun
GridMade == pc = "begin" /\ pass = 1

\* The latitude bin edges of the scenario of the specification: the box
\* min_lat = 30, max_lat = 50 with grid_size_km = 10 (the longitudes of the box
\* play no part in the latitude edges).
ScenarioLatBins == LatBins(30 * DegScale, 50 * DegScale, 10)

EdgeKeys == EdgesUpTo(lat_bins, lon_bins_by_lat, NBins(lat_bins))

\* the positions in a list of key pairs of the edges that stay in band b
SameBand(pairs, b) == {e \in 1..Len(pairs) : pairs[e][1][1] = b /\ pairs[e][2][1] = b}

(***************************************************************************)
(* C22.  The edge list holds the ids of the key pairs in the order of the  *)
(* appends, and in a band of k cells exactly k - 1 of the pairs stay in    *)
(* the band: one for each two cells with longitude indices j and j + 1,    *)
(* from the western cell j to the eastern cell j + 1, and none from an     *)
(* eastern cell to the cell west of it.                                    *)
(***************************************************************************)
C22_OneEastEdgePerPair ==
    pc = "returned" =>
        LET pairs == EdgeKeys
        IN  /\ edge_list = EdgeIds(lat_bins, lon_bins_by_lat, pairs)
            /\ \A b \in 1..NBins(lat_bins) :
                  LET k == NBins(lon_bins_by_lat[b])
                  IN  /\ Cardinality(SameBand(pairs, b)) = Max2(0, k - 1)
                      /\ \A j \in 1..(k - 1) :
                            Cardinality({e \in SameBand(pairs, b) :
                                            pairs[e] = <<<<b, j>>, <<b, j + 1>>>>}) = 1
                      /\ \A e \in SameBand(pairs, b) :
                            pairs[e][2][2] = pairs[e][1][2] + 1

\* the edges of a grid of three bands whose first band has four cells and three
\* east edges, the first of them from the first cell to the second
C22_Witness ==
    /\ pc = "returned"
    /\ NBins(lat_bins) = 3
    /\ NBins(lon_bins_by_lat[1]) = 4
    /\ Cardinality(SameBand(EdgeKeys, 1)) = 3
    /\ EdgeKeys[1] = <<<<1, 1>>, <<1, 2>>>>
    /\ edge_list[1] = <<cell_centers[1][3], cell_centers[2][3]>>

\* the key of the cross-band counterpart of cell (b, j): the first key of the
\* next band that the cell is connected to
SouthOf(b, j) ==
    LET targets == CellTargets(lat_bins, lon_bins_by_lat, b, j)
    IN  targets[CHOOSE t \in 1..Len(targets) :
                    targets[t][1] = b + 1 /\ \A u \in 1..(t - 1) : targets[u][1] = b]

\* index c of centers is the first one whose absolute difference to x is least
FirstNearest(centers, x, c) ==
    /\ c \in 1..Len(centers)
    /\ \A m \in 1..Len(centers) : Abs(centers[c] - x) <= Abs(centers[m] - x)
    /\ \A m \in 1..(c - 1) : Abs(centers[m] - x) > Abs(centers[c] - x)

\* Lists of longitude centres, ascending, and longitudes between them, among
\* which some are as far from one centre as from the next.
CenterLists == {<<2>>, <<2, 4>>, <<2, 6>>, <<2, 4, 6>>, <<0, 2, 6>>}

(***************************************************************************)
(* C23.  Every cell of a band that is not the last is connected to one     *)
(* cell of the next band chosen by longitude: a cell whose center_lon is   *)
(* at the least absolute difference, in degrees, from the cell's own, and  *)
(* of several at that least difference the one with the lowest longitude   *)
(* index (np.argmin gives the first).                                      *)
(***************************************************************************)
C23_SouthIsFirstNearest ==
    pc = "returned" =>
        /\ LET keys == IdSet(EdgeKeys)
           IN  \A b \in 1..(NBins(lat_bins) - 1) :
                  \A j \in 1..NBins(lon_bins_by_lat[b]) :
                      LET south == SouthOf(b, j)
                      IN  /\ south[1] = b + 1
                          /\ FirstNearest(LonCenters(lon_bins_by_lat, b + 1),
                                          LonCenters(lon_bins_by_lat, b)[j], south[2])
                          /\ <<<<b, j>>, south>> \in keys
        /\ \A centers \in CenterLists :
              \A x \in 0..7 : FirstNearest(centers, x, ClosestLonIdx(centers, x))

\* a grid in which the counterpart of a cell has another longitude index than
\* the cell, and a longitude as far from two centres, of which the first is chosen
C23_Witness ==
    /\ pc = "returned"
    /\ \E b \in 1..(NBins(lat_bins) - 1) :
          \E j \in 1..NBins(lon_bins_by_lat[b]) :
              /\ SouthOf(b, j)[2] # j
              /\ NBins(lon_bins_by_lat[b + 1]) >= 3
    /\ Abs(4 - 5) = Abs(6 - 5)
    /\ ClosestLonIdx(<<2, 4, 6>>, 5) = 2

\* the longitude indices in the next band of the cells that cell (b, j) is
\* connected to, one for each edge
NextBandIdx(b, j) ==
    LET targets == CellTargets(lat_bins, lon_bins_by_lat, b, j)
        across(t) == t[1] = b + 1
        kept == SelectSeq(targets, across)
    IN  [t \in 1..Len(kept) |-> kept[t][2]]

\* the number of entries of a sequence that equal v
Occurrences(seq, v) == Cardinality({t \in 1..Len(seq) : seq[t] = v})

(***************************************************************************)
(* C24.  A cell of a band that is not the last, whose counterpart has      *)
(* longitude index c in a next band of m cells, has one edge to cell c of  *)
(* the next band, one to cell c + 1 exactly when there is a cell c + 1     *)
(* (c < m, indices from 1), one to cell c - 1 exactly when c > 1, and no   *)
(* other edge that leaves its band: between 1 and 3 edges into the next    *)
(* band, and none into any other band.  A cell of the last band has none.  *)
(***************************************************************************)
C24_DiagonalsWhenTheyExist ==
    pc = "returned" =>
        LET keys == IdSet(EdgeKeys)
        IN  \A b \in 1..NBins(lat_bins) :
                \A j \in 1..NBins(lon_bins_by_lat[b]) :
                    LET targets == CellTargets(lat_bins, lon_bins_by_lat, b, j)
                        next == NextBandIdx(b, j)
                    IN  /\ \A t \in 1..Len(targets) : targets[t][1] \in {b, b + 1}
                        /\ b = NBins(lat_bins) => next = <<>>
                        /\ b < NBins(lat_bins) =>
                              LET c == SouthOf(b, j)[2]
                                  m == NBins(lon_bins_by_lat[b + 1])
                              IN  /\ Occurrences(next, c) = 1
                                  /\ Occurrences(next, c + 1) = (IF c < m THEN 1 ELSE 0)
                                  /\ Occurrences(next, c - 1) = (IF c > 1 THEN 1 ELSE 0)
                                  /\ \A t \in 1..Len(next) : next[t] \in {c - 1, c, c + 1}
                                  /\ Len(next) \in 1..3
                                  /\ \A t \in 1..Len(next) :
                                        <<<<b, j>>, <<b + 1, next[t]>>>> \in keys

\* a grid with a cell that has three edges into the next band, a cell that has
\* two because its counterpart is the first of its band, and a cell that has two
\* because its counterpart is the last
C24_Witness ==
    /\ pc = "returned"
    /\ NBins(lat_bins) >= 2
    /\ \E j \in 1..NBins(lon_bins_by_lat[1]) :
          Len(NextBandIdx(1, j)) = 3 /\ SouthOf(1, j)[2] = 2
    /\ \E j \in 1..NBins(lon_bins_by_lat[1]) :
          Len(NextBandIdx(1, j)) = 2 /\ SouthOf(1, j)[2] = 1
    /\ \E j \in 1..NBins(lon_bins_by_lat[1]) :
          /\ Len(NextBandIdx(1, j)) = 2
          /\ SouthOf(1, j)[2] = NBins(lon_bins_by_lat[2])

\* n copies of a point: an array of n coordinates
Copies(n, point) == [i \in 1..n |-> point]

\* a point one degree north of a point: farther than any radius that is tried
FarFrom(point) == <<point[1] + DegScale, point[2]>>

\* every entry of a distance matrix is a distance, none is np.inf
NoInfinite(distances) ==
    \A i \in 1..Len(distances) : \A j \in 1..Len(distances[i]) : distances[i][j] < Inf

(***************************************************************************)
(* C25.  calculate_haversine_distances takes the accelerated mode only     *)
(* when radius_km is given and the sources times the targets are more than *)
(* 1,000,000: 1000 x 1000 pairs get the exact matrix, 1001 x 1000 pairs    *)
(* the accelerated one when a radius is given and the exact one when none  *)
(* is; and the matrix of the cells and the points of a call, as any exact  *)
(* matrix, has no infinite entry.                                          *)
(***************************************************************************)
C25_AcceleratedOnlyAboveThreshold ==
    GridMade /\ node_coords_array # <<>> =>
        LET p == node_coords_array[1]
            targets == Copies(1000, FarFrom(p))
        IN  /\ calculate_haversine_distances(Copies(1000, p), targets, args.radius_km)[1000][1000]
                  = Haversine(p, FarFrom(p))
            /\ calculate_haversine_distances(Copies(1001, p), targets, args.radius_km)[1001][1000]
                  = Inf
            /\ calculate_haversine_distances(Copies(1001, p), targets, NoRadius)[1001][1000]
                  = Haversine(p, FarFrom(p))
            /\ \A n \in {1, 999, 1000, 1001}, m \in {1000, 1001, 1000000, 1000001} :
                  \A r \in Radii \cup {NoRadius} :
                      UsesAccelerated(n, m, r) <=> (r # NoRadius /\ n * m > 1000000)
            /\ \A source \in {"fire", "current", "forecast"} :
                  \A r \in {args.radius_km, NoRadius} :
                      LET distances == calculate_haversine_distances(
                                           node_coords_array, Coords(TableOf(source)), r)
                      IN  /\ distances = DistancesExact(node_coords_array,
                                                        Coords(TableOf(source)))
                          /\ NoInfinite(distances)

\* the grid of a call with fire points; 1,000,000 pairs were in the exact mode
\* and 1,001,000 in the accelerated one, which left a pair out
C25_Witness ==
    /\ GridMade
    /\ node_coords_array # <<>>
    /\ ~Empty(args.firms_df)
    /\ args.radius_km > 0
    /\ ~UsesAccelerated(1000, 1000, args.radius_km)
    /\ UsesAccelerated(1001, 1000, args.radius_km)
    /\ DistancesAccelerated(Copies(1001, node_coords_array[1]),
                            Copies(1000, FarFrom(node_coords_array[1])),
                            args.radius_km)[1001][1000] = Inf
    /\ Haversine(node_coords_array[1], FarFrom(node_coords_array[1])) > KmToDam(args.radius_km)

\* the targets that pass the filter distances[i, :] <= radius_km
Passing(row, radius_km) == IdSet(InRadius(row, radius_km))

FeatureKey(source, col) == (IF source = "forecast" THEN "forecast_" ELSE "current_") \o col

RECURSIVE SumOver(_, _, _)
\* the sum of a column over a set of rows of a table
SumOver(df, rows, col) ==
    IF rows = {} THEN 0
    ELSE LET j == CHOOSE k \in rows : TRUE
         IN  df.rows[j][col] + SumOver(df, rows \ {j}, col)

\* the mean of a column over a set of rows, none of which misses the value
MeanOver(df, rows, col) == SumOver(df, rows, col) \div Cardinality(rows)

C28_WeatherPassesComplete ==
    ValidGrid /\ args.radius_km > 0 =>
        \A source \in {"current", "forecast"} :
            /\ error # "NameError"
            /\ pass_state[source] = "aborted" => SomeFailed
            /\ pc \in {"edges", "returned"} /\ ~Empty(TableOf(source)) =>
                  pass_state[source] = "merged"

\* executor.map of the running pass has returned the features of every batch
BatchesDone == pc = "map" /\ \A c \in DOMAIN status : status[c] = "done"

\* the features of a source that the cell at global index g gets from the
\* distances measured from its own centre
OwnFeatures(source, g) ==
    LET row == DistancesExact(<<node_coords_array[g]>>, Coords(TableOf(source)))[1]
    IN  IF source = "fire" THEN FireFeatures(row, TableOf(source), args.radius_km)
        ELSE WeatherFeatures(row, TableOf(source), args.radius_km, source = "forecast")

(***************************************************************************)
(* C29.  For every batch (start, end, ids) of a pass, position i of the    *)
(* batch is the cell at global index start + i: node_ids and cell_centers  *)
(* give it the id ids[i], and its row of the distance matrix is measured   *)
(* from its centre.  The features that the batch returns under an id are   *)
(* those computed from the centre of a cell of the batch that has this id. *)
(***************************************************************************)
C29_RowsBelongToTheirCells ==
    BatchesDone =>
        \A b \in DOMAIN status :
            LET start == node_batches[b][1]
                ids   == node_batches[b][3]
                batch_coords == Slice(node_coords_array, start, node_batches[b][2])
                distances == calculate_haversine_distances(
                                 batch_coords, Coords(TableOf(Source)), args.radius_km)
            IN  /\ Len(batch_coords) = Len(ids)
                /\ Len(distances) = Len(ids)
                /\ \A i \in 1..Len(ids) :
                      /\ node_ids[start + i] = ids[i]
                      /\ cell_centers[start + i][3] = ids[i]
                      /\ batch_coords[i] = <<cell_centers[start + i][1],
                                             cell_centers[start + i][2]>>
                      /\ distances[i]
                            = DistancesExact(<<node_coords_array[start + i]>>,
                                             Coords(TableOf(Source)))[1]
                /\ \A id \in DOMAIN results[b] :
                      \E i \in 1..Len(ids) :
                          /\ ids[i] = id
                          /\ results[b][id] = OwnFeatures(Source, start + i)

\* two workers: the second batch starts at a later index than 0 and has a cell
\* whose fire features differ from those of the cell at the same position of
\* the first batch
C29_Witness ==
    /\ BatchesDone
    /\ Source = "fire"
    /\ args.n_workers = 2
    /\ Len(node_batches) >= 2
    /\ node_batches[2][1] > 0
    /\ \E i \in 1..Len(BatchIds(2)) :
          /\ i <= Len(BatchIds(1))
          /\ BatchIds(2)[i] # BatchIds(1)[i]
          /\ results[2][BatchIds(2)[i]] # results[1][BatchIds(1)[i]]

(***************************************************************************)
(* C30.  The node set of the returned graph is the set of the cell ids of  *)
(* create_grid_cells and the key set of node_features: the id that         *)
(* create_grid_edges recomputes for the cell (lat_idx, lon_idx) is the id  *)
(* of that cell in cell_centers, so every endpoint of the edge list is a   *)
(* grid cell and add_edges_from adds no node.                              *)
(***************************************************************************)
\* the number of cells in the bands before band b: the position in
\* cell_centers before the first cell of band b
RECURSIVE CellsBefore(_, _)
CellsBefore(lon_bins, b) ==
    IF b <= 1 THEN 0
    ELSE CellsBefore(lon_bins, b - 1) + NBins(lon_bins[b - 1])

C30_NodesAreTheCells ==
    pc = "returned" =>
        LET cell_ids == {cell_centers[i][3] : i \in 1..Len(cell_centers)}
        IN  /\ G.nodes = cell_ids
            /\ G.nodes = DOMAIN node_features
            /\ cell_ids = IdSet(node_ids)
            /\ CellsBefore(lon_bins_by_lat, NBins(lat_bins) + 1) = Len(cell_centers)
            /\ \A b \in 1..NBins(lat_bins) :
                  \A j \in 1..NBins(lon_bins_by_lat[b]) :
                      CellLookup(lat_bins, lon_bins_by_lat, b, j)
                          = cell_centers[CellsBefore(lon_bins_by_lat, b) + j][3]
            /\ \A e \in 1..Len(edge_list) :
                  /\ edge_list[e][1] \in cell_ids
                  /\ edge_list[e][2] \in cell_ids
            /\ \A edge \in G.edges : edge \subseteq cell_ids

\* a returned graph of several bands whose edges reach into the next band, with
\* a cell whose features a pass has filled
C30_Witness ==
    /\ pc = "returned"
    /\ NBins(lat_bins) >= 2
    /\ Cardinality(G.nodes) >= 4
    /\ Cardinality(G.nodes) = Cardinality(DOMAIN node_features)
    /\ \E e \in 1..Len(edge_list) :
          /\ edge_list[e][1] = CellLookup(lat_bins, lon_bins_by_lat, 1, 1)
          /\ edge_list[e][2] = CellLookup(lat_bins, lon_bins_by_lat, 2, 1)
    /\ \E grid_id \in DOMAIN node_features : node_features[grid_id].fire_count > 0

====
